---- MODULE Spec2Model ----
(***************************************************************************)
(* Model of src/backend/sql_agents/convert_script.py: the driver that      *)
(* submits one source script to a group chat of SQL agents, interprets     *)
(* every produced message, tracks the current migration candidate,         *)
(* reports status events and file logs, and validates the final candidate. *)
(*                                                                         *)
(* Texts of errors are sequences of one-character strings so that the      *)
(* substring test of is_content_safety_error is computed, not assumed.     *)
(***************************************************************************)
EXTENDS Integers, Sequences, FiniteSets, TLC

(* ------------------------------------------------------------------ *)
(* Bounds                                                              *)
(* ------------------------------------------------------------------ *)

\* Largest number of messages chat.invoke() yields in one run.
MaxMsgs == 3

(* ------------------------------------------------------------------ *)
(* Texts and the content-safety classifier                             *)
(* ------------------------------------------------------------------ *)

CONTENT_SAFETY_PREFIX == "Sensitive or harmful content detected"

\* str.lower() on one character (ASCII letters).
LowerChar(c) ==
    CASE c = "A" -> "a" [] c = "B" -> "b" [] c = "C" -> "c" [] c = "D" -> "d"
      [] c = "E" -> "e" [] c = "F" -> "f" [] c = "G" -> "g" [] c = "H" -> "h"
      [] c = "I" -> "i" [] c = "J" -> "j" [] c = "K" -> "k" [] c = "L" -> "l"
      [] c = "M" -> "m" [] c = "N" -> "n" [] c = "O" -> "o" [] c = "P" -> "p"
      [] c = "Q" -> "q" [] c = "R" -> "r" [] c = "S" -> "s" [] c = "T" -> "t"
      [] c = "U" -> "u" [] c = "V" -> "v" [] c = "W" -> "w" [] c = "X" -> "x"
      [] c = "Y" -> "y" [] c = "Z" -> "z" [] OTHER -> c

\* str(error).lower()
Lower(s) == [i \in 1..Len(s) |-> LowerChar(s[i])]

\* Python's "indicator in error_str": a contiguous occurrence.
IsSubstring(p, s) ==
    \E i \in 0..(Len(s) - Len(p)) : \A j \in 1..Len(p) : s[i + j] = p[j]

error_indicators ==
    << <<"c","o","n","t","e","n","t"," ","f","i","l","t","e","r">>,
       <<"c","o","n","t","e","n","t"," ","p","o","l","i","c","y">>,
       <<"r","e","s","p","o","n","s","i","b","l","e"," ","a","i">>,
       <<"h","a","r","m","f","u","l"," ","c","o","n","t","e","n","t">>,
       <<"i","n","a","p","p","r","o","p","r","i","a","t","e"," ",
         "c","o","n","t","e","n","t">>,
       <<"s","a","f","e","t","y"," ","f","i","l","t","e","r">>,
       <<"c","o","n","t","e","n","t","_","f","i","l","t","e","r">>,
       <<"r","e","s","p","o","n","s","i","b","l","e","a","i",
         "p","o","l","i","c","y">>,
       <<"c","o","n","t","e","n","t"," ","v","i","o","l","a","t","i","o","n">> >>

\* Variant: the text is not lower-cased before the search.
is_content_safety_error_CaseSensitive(error) ==
    \E k \in 1..Len(error_indicators) :
        IsSubstring(error_indicators[k], error)

is_content_safety_error(error) ==
    LET error_str == Lower(error)
    IN  \E k \in 1..Len(error_indicators) :
            IsSubstring(error_indicators[k], error_str)

\* Error texts the collaborators raise in this model.
TextBoom   == <<"b","o","o","m">>
TextEOF    == <<"E","O","F">>
TextFilter == <<"H","i","t"," ","C","o","n","t","e","n","t"," ",
                "F","i","l","t","e","r">>
NoText     == <<>>

ErrTexts == {TextBoom, TextFilter}

(* ------------------------------------------------------------------ *)
(* Enumerations of the collaborating packages                          *)
(* ------------------------------------------------------------------ *)

USER      == "user"
ASSISTANT == "assistant"

MIGRATOR          == "migrator"
SYNTAX_CHECKER    == "syntax_checker"
PICKER            == "picker"
FIXER             == "fixer"
SEMANTIC_VERIFIER == "semantic_verifier"
ALL               == "agents"
\* agent_type / agent_message of a FileProcessUpdate built without them
Unspecified       == "<default>"

AgentNames == {MIGRATOR, SYNTAX_CHECKER, PICKER, FIXER, SEMANTIC_VERIFIER}

IN_PROGRESS == "in_progress"
COMPLETED   == "completed"

INFO    == "info"
WARNING == "warning"
ERROR   == "error"
SUCCESS == "success"

\* Python values of current_migration / the returned artifact
NoMigration == "No migration"
None        == "<None>"
Unbound     == "<unbound>"
EmptyStr    == ""

Queries   == {EmptyStr, NoMigration, "SELECT 1", "SELECT 2"}
Summaries == {"minor diff", "major diff"}

\* The three exception classes the except clauses tell apart.
BadRequestError  == "BadRequestError"
HttpResponseError == "HttpResponseError"
OtherException   == "Exception"
ValidationError  == "ValidationError"
UnboundLocalError == "UnboundLocalError"
NoException      == "<none>"

TransportExcTypes == {BadRequestError, HttpResponseError, OtherException}

(* ------------------------------------------------------------------ *)
(* Messages produced by chat.invoke()                                  *)
(* ------------------------------------------------------------------ *)

\* One ChatMessageContent.  parse: "ok" = content is JSON matching the
\* schema of the author's response model, "invalid" = content is not
\* parseable JSON, "empty" = content is the empty string.  The remaining
\* fields are the decoded fields that the driver reads; errtext is the
\* text of the error model_validate_json raises on this content.
Msg(role, name, parse, abort, his, nse, query, diffs, summary, errtext) ==
    [role |-> role, name |-> name, parse |-> parse, abort |-> abort,
     has_input_summary |-> his, no_syntax_errors |-> nse, query |-> query,
     has_differences |-> diffs, summary |-> summary, errtext |-> errtext]

OkMsg(name, abort, his, nse, query, diffs, summary) ==
    Msg(ASSISTANT, name, "ok", abort, his, nse, query, diffs, summary, NoText)

Messages ==
    \* Migrator: input_error or rai_error set (abort), or neither
    {OkMsg(MIGRATOR, TRUE, h, FALSE, EmptyStr, FALSE, "done") : h \in BOOLEAN}
    \cup {OkMsg(MIGRATOR, FALSE, FALSE, FALSE, EmptyStr, FALSE, "done")}
    \cup {OkMsg(SYNTAX_CHECKER, FALSE, FALSE, n, EmptyStr, FALSE, "done") :
        n \in BOOLEAN}
    \cup {OkMsg(PICKER, FALSE, FALSE, FALSE, q, FALSE, "done") : q \in Queries}
    \cup {OkMsg(FIXER, FALSE, FALSE, FALSE, q, FALSE, "done") : q \in Queries}
    \cup {OkMsg(SEMANTIC_VERIFIER, FALSE, FALSE, FALSE, EmptyStr, TRUE, s) :
        s \in Summaries}
    \cup {OkMsg(SEMANTIC_VERIFIER, FALSE, FALSE, FALSE, EmptyStr, FALSE, "done")}
    \* content that is not JSON: decoding raises with some error text
    \cup {Msg(ASSISTANT, n, "invalid", FALSE, FALSE, FALSE, EmptyStr, FALSE,
              EmptyStr, t) : n \in AgentNames, t \in ErrTexts}
    \* empty content
    \cup {Msg(ASSISTANT, n, "empty", FALSE, FALSE, FALSE, EmptyStr, FALSE,
              EmptyStr, TextEOF) : n \in AgentNames}
    \* user-authored turns: never decoded by the dispatcher
    \cup {Msg(USER, MIGRATOR, p, FALSE, FALSE, FALSE, EmptyStr, FALSE,
              IF p = "ok" THEN "done" ELSE EmptyStr,
              IF p = "ok" THEN NoText ELSE TextBoom) :
        p \in {"ok", "invalid", "empty"}}

(* ------------------------------------------------------------------ *)
(* State                                                               *)
(* ------------------------------------------------------------------ *)

VARIABLES
    pc,                \* position of convert_script
    azure_imported,    \* did "from openai import BadRequestError" succeed
    current_migration, \* the candidate tracked by convert_script
    is_complete,       \* the loop flag of convert_script
    carry_bound,       \* has the local carry_response been assigned
    carry_response,    \* <<>> for None, <<m>> for the last message seen
    consumed,          \* messages chat.invoke() has yielded so far
    submissions,       \* calls of chat.add_chat_message(source_script)
    candidate_turns,   \* migrated_script of each "candidate" turn added
    events,            \* FileProcessUpdates passed to send_status_update
    logs,              \* calls of batch_service.create_file_log
    ret,               \* value returned by convert_script
    raised,            \* class of the exception that left convert_script
    classified,        \* classifier runs: the text of the error classified
    verdicts           \* classifier runs: results of the calls made so far

vars == <<pc, azure_imported, current_migration, is_complete, carry_bound,
          carry_response, consumed, submissions, candidate_turns, events,
          logs, ret, raised, classified, verdicts>>

\* FileProcessUpdate(batch_id, file_id, process_status, agent_type,
\*                   agent_message, file_result); agent_message is the
\* sequence of literal parts of the message, error_text the str(error)
\* interpolated at its end.
FileProcessUpdate(process_status, agent_type, agent_message, error_text, file_result) ==
    [process_status |-> process_status, agent_type |-> agent_type,
     agent_message |-> agent_message, error_text |-> error_text,
     file_result |-> file_result]

\* create_file_log(file_id, description, last_candidate, log_type,
\*                 agent_type, author_role)
FileLog(description, error_text, last_candidate, log_type, agent_type, author_role) ==
    [description |-> description, error_text |-> error_text,
     last_candidate |-> last_candidate, log_type |-> log_type,
     agent_type |-> agent_type, author_role |-> author_role]

(* ------------------------------------------------------------------ *)
(* handle_content_safety_error                                         *)
(* ------------------------------------------------------------------ *)

ContentSafetyLog(error, cur, agent_type) ==
    FileLog("I'm sorry, but I cannot assist with that request due to content policy restrictions.",
            error, cur, ERROR, agent_type, ASSISTANT)

\* Variant: the block is reported with the phase of a progress event.
ContentSafetyEvent_InProgress(error, agent_type) ==
    FileProcessUpdate(IN_PROGRESS, agent_type,
        <<CONTENT_SAFETY_PREFIX,
          " - Request blocked by content safety filters: ">>,
        error, ERROR)

ContentSafetyEvent(error, agent_type) ==
    FileProcessUpdate(COMPLETED, agent_type,
        <<CONTENT_SAFETY_PREFIX,
          " - Request blocked by content safety filters: ">>,
        error, ERROR)

handle_content_safety_error(error, cur, agent_type) ==
    /\ logs' = Append(logs, ContentSafetyLog(error, cur, agent_type))
    /\ events' = Append(events, ContentSafetyEvent(error, agent_type))

(* ------------------------------------------------------------------ *)
(* validate_migration                                                  *)
(* ------------------------------------------------------------------ *)

\* Variant: the comparison with the sentinel is left out.
IsValidMigration_NoSentinel(migrated_query) ==
    ~ (migrated_query = EmptyStr \/ migrated_query = None)

\* not (not migrated_query or migrated_query == "No migration")
IsValidMigration(migrated_query) ==
    ~ (migrated_query = EmptyStr \/ migrated_query = None
       \/ migrated_query = NoMigration)

ValidationErrorEvent ==
    FileProcessUpdate(COMPLETED, Unspecified, <<>>, NoText, ERROR)

ValidationErrorLog(carry) ==
    FileLog("No migrated query returned. Migration failed.", NoText, EmptyStr,
            ERROR,
            IF carry = <<>> THEN SEMANTIC_VERIFIER ELSE carry[1].name,
            IF carry = <<>> THEN ASSISTANT ELSE carry[1].role)

ValidationSuccessEvent ==
    FileProcessUpdate(COMPLETED, ALL, <<>>, NoText, SUCCESS)

\* Variant: the SUCCESS log stores "" as the error log does.
ValidationSuccessLog_EmptyCandidate(migrated_query) ==
    FileLog("Migration completed successfully.", NoText, EmptyStr,
            SUCCESS, ALL, ASSISTANT)

ValidationSuccessLog(migrated_query) ==
    FileLog("Migration completed successfully.", NoText, migrated_query,
            SUCCESS, ALL, ASSISTANT)

\* The whole of validate_migration: what it emits, and its result.
validate_migration(migrated_query, carry) ==
    IF IsValidMigration(migrated_query)
    THEN /\ events' = Append(events, ValidationSuccessEvent)
         /\ logs' = Append(logs, ValidationSuccessLog(migrated_query))
    ELSE /\ events' = Append(events, ValidationErrorEvent)
         /\ logs' = Append(logs, ValidationErrorLog(carry))

(* ------------------------------------------------------------------ *)
(* convert_script: the per-message dispatcher and reporter             *)
(* ------------------------------------------------------------------ *)

StartedEvent ==
    FileProcessUpdate(IN_PROGRESS, ALL, <<"File processing started">>,
                      NoText, INFO)

\* Does <Response>.model_validate_json(response.content) raise?
DecodeFails(m) == m.parse # "ok"

\* The branch of the MIGRATOR case taken on input_error or rai_error.
MigratorAborts(m) ==
    m.role = ASSISTANT /\ m.name = MIGRATOR /\ ~DecodeFails(m) /\ m.abort

\* Variant: the abort is logged after current_migration was set to None.
MigratorAbortLog_AfterInvalidation(m, cur) ==
    FileLog(IF m.has_input_summary
            THEN "{CONTENT_SAFETY_PREFIX}: {input_summary}"
            ELSE "{CONTENT_SAFETY_PREFIX}: {response.content}",
            NoText, None, ERROR, m.name, m.role)

MigratorAbortLog(m, cur) ==
    FileLog(IF m.has_input_summary
            THEN "{CONTENT_SAFETY_PREFIX}: {input_summary}"
            ELSE "{CONTENT_SAFETY_PREFIX}: {response.content}",
            NoText, cur, ERROR, m.name, m.role)

MigratorAbortEvent ==
    FileProcessUpdate(COMPLETED, MIGRATOR,
        <<"Migration failed due to input or content policy error">>,
        NoText, ERROR)

\* Variant: the FIXER case does not replace the candidate.
NextCandidate_FixerIgnored(m, cur) ==
    IF m.role # ASSISTANT THEN cur
    ELSE CASE m.name = PICKER -> m.query
           [] OTHER           -> cur

\* current_migration after the match statement on a decoded message
NextCandidate(m, cur) ==
    IF m.role # ASSISTANT THEN cur
    ELSE CASE m.name = PICKER -> m.query
           [] m.name = FIXER  -> m.query
           [] OTHER           -> cur

\* Variant: the test of syntax_errors is inverted.
NextCandidateTurns_OnErrors(m, cur, turns) ==
    IF m.role = ASSISTANT /\ m.name = SYNTAX_CHECKER /\ ~m.no_syntax_errors
    THEN Append(turns, cur)
    ELSE turns

\* chat.history.add_message(... name="candidate" ...) of SYNTAX_CHECKER
NextCandidateTurns(m, cur, turns) ==
    IF m.role = ASSISTANT /\ m.name = SYNTAX_CHECKER /\ m.no_syntax_errors
    THEN Append(turns, cur)
    ELSE turns

\* The SEMANTIC_VERIFIER case.  Its second branch, response == "",
\* compares a ChatMessageContent with a str and is never taken.
VerifierWarns(m) ==
    m.role = ASSISTANT /\ m.name = SEMANTIC_VERIFIER /\ m.has_differences

\* Variant: the WARNING event carries the joined differences instead of
\* the verifier's summary.
VerifierWarningEvent_Differences(m) ==
    FileProcessUpdate(COMPLETED, SEMANTIC_VERIFIER,
                      <<"newline.join(result.differences)">>, NoText, WARNING)

VerifierWarningEvent(m) ==
    FileProcessUpdate(COMPLETED, SEMANTIC_VERIFIER, <<m.summary>>, NoText,
                      WARNING)

VerifierWarningLog(m, cur) ==
    FileLog("newline.join(result.differences)", NoText, cur, WARNING,
            SEMANTIC_VERIFIER, ASSISTANT)

\* Variant: the verifier's WARNING is logged but not published.
RoleEvents_NoWarning(m) == <<>>

RoleEvents(m) ==
    IF VerifierWarns(m) THEN <<VerifierWarningEvent(m)>> ELSE <<>>

\* Variant: the verifier's WARNING is published but not logged.
RoleLogs_NoWarningLog(m, cur) == <<>>

RoleLogs(m, cur) ==
    IF VerifierWarns(m) THEN <<VerifierWarningLog(m, cur)>> ELSE <<>>

\* json.loads(response.content or "{}").get("summary", "") with its
\* JSONDecodeError fallback
Summary(m) ==
    CASE m.parse = "ok"      -> m.summary
      [] m.parse = "empty"   -> EmptyStr
      [] m.parse = "invalid" -> "Response parsing error"

GenericEvent(m) ==
    FileProcessUpdate(IN_PROGRESS, m.name, <<Summary(m)>>, NoText, INFO)

GenericLog(m, cur) ==
    FileLog("response.content", NoText, cur, INFO, m.name, m.role)

ProcessingFailedEvent(error) ==
    FileProcessUpdate(COMPLETED, ALL, <<"Processing failed: ">>, error, ERROR)

(* ------------------------------------------------------------------ *)
(* convert_script: the except clauses of the try statement             *)
(* ------------------------------------------------------------------ *)

\* except (BadRequestError, HttpResponseError): when the import failed
\* both names are bound to Exception and the clause catches everything.
CaughtAsAzureError(type) ==
    IF azure_imported THEN type \in {BadRequestError, HttpResponseError}
    ELSE TRUE

\* An exception of class type and text error reaches the except clauses
\* of the outer try.
ExceptClauses(type, error) ==
    IF is_content_safety_error(error)
    THEN /\ handle_content_safety_error(error, current_migration, ALL)
         /\ pc' = "return_safety"
         /\ ret' = EmptyStr
         /\ UNCHANGED raised
    ELSE IF CaughtAsAzureError(type)
         THEN /\ pc' = "raised"
              /\ raised' = type
              /\ UNCHANGED <<events, logs, ret>>
         ELSE /\ events' = Append(events, ProcessingFailedEvent(error))
              /\ pc' = "validate"
              /\ UNCHANGED <<logs, ret, raised>>

(* ------------------------------------------------------------------ *)
(* convert_script: the steps                                           *)
(* ------------------------------------------------------------------ *)

Init ==
    /\ pc = "entry"
    /\ azure_imported \in BOOLEAN
    /\ current_migration = Unbound
    /\ is_complete = FALSE
    /\ carry_bound = FALSE
    /\ carry_response = <<>>
    /\ consumed = <<>>
    /\ submissions = 0
    /\ candidate_turns = <<>>
    /\ events = <<>>
    /\ logs = <<>>
    /\ ret = Unbound
    /\ raised = NoException
    /\ classified = NoText
    /\ verdicts = <<>>

\* Entry of convert_script up to the loop: the start event and the
\* initial candidate.
Start ==
    /\ pc = "entry"
    /\ events' = Append(events, StartedEvent)
    /\ current_migration' = NoMigration
    /\ is_complete' = FALSE
    /\ pc' = "loop_head"
    /\ UNCHANGED <<classified, verdicts>>
    /\ UNCHANGED <<azure_imported, carry_bound, carry_response, consumed,
                   submissions, candidate_turns, logs, ret, raised>>

\* while not is_complete:
LoopHead ==
    /\ pc = "loop_head"
    /\ pc' = IF ~is_complete THEN "submit" ELSE "validate"
    /\ UNCHANGED <<classified, verdicts>>
    /\ UNCHANGED <<azure_imported, current_migration, is_complete,
                   carry_bound, carry_response, consumed, submissions,
                   candidate_turns, events, logs, ret, raised>>

\* chat.add_chat_message(source_script) returns; carry_response = None
Submit ==
    /\ pc = "submit"
    /\ submissions' = submissions + 1
    /\ carry_bound' = TRUE
    /\ carry_response' = <<>>
    /\ pc' = "iter"
    /\ UNCHANGED <<classified, verdicts>>
    /\ UNCHANGED <<azure_imported, current_migration, is_complete, consumed,
                   candidate_turns, events, logs, ret, raised>>

\* chat.add_chat_message raises: carry_response is not assigned
SubmitRaises ==
    /\ pc = "submit"
    /\ \E type \in TransportExcTypes, error \in ErrTexts :
           ExceptClauses(type, error)
    /\ UNCHANGED <<classified, verdicts>>
    /\ UNCHANGED <<azure_imported, current_migration, is_complete,
                   carry_bound, carry_response, consumed, submissions,
                   candidate_turns>>

\* chat.invoke() yields m and the loop body runs to its end
ConsumeMessage ==
    /\ pc = "iter"
    /\ Len(consumed) < MaxMsgs
    /\ \E m \in Messages :
        /\ ~(m.role = ASSISTANT /\ DecodeFails(m))
        /\ ~MigratorAborts(m)
        /\ consumed' = Append(consumed, m)
        /\ carry_response' = <<m>>
        /\ current_migration' = NextCandidate(m, current_migration)
        /\ candidate_turns' =
               NextCandidateTurns(m, current_migration, candidate_turns)
        /\ events' = events \o RoleEvents(m) \o <<GenericEvent(m)>>
        /\ logs' = logs \o RoleLogs(m, current_migration')
                        \o <<GenericLog(m, current_migration')>>
    /\ pc' = "iter"
    /\ UNCHANGED <<classified, verdicts>>
    /\ UNCHANGED <<azure_imported, is_complete, carry_bound, submissions,
                   ret, raised>>

\* chat.invoke() yields a Migrator message flagging input_error or
\* rai_error: log, event, current_migration = None, break
ConsumeMigratorAbort ==
    /\ pc = "iter"
    /\ Len(consumed) < MaxMsgs
    /\ \E m \in Messages :
        /\ MigratorAborts(m)
        /\ consumed' = Append(consumed, m)
        /\ carry_response' = <<m>>
        /\ logs' = Append(logs, MigratorAbortLog(m, current_migration))
        /\ events' = Append(events, MigratorAbortEvent)
    /\ current_migration' = None
    /\ pc' = "after_try"
    /\ UNCHANGED <<classified, verdicts>>
    /\ UNCHANGED <<azure_imported, is_complete, carry_bound, submissions,
                   candidate_turns, ret, raised>>

\* chat.invoke() yields an assistant message whose content does not
\* decode: the inner except clause, and the outer ones when it re-raises
ConsumeUndecodable ==
    /\ pc = "iter"
    /\ Len(consumed) < MaxMsgs
    /\ \E m \in Messages :
        /\ m.role = ASSISTANT /\ DecodeFails(m)
        /\ consumed' = Append(consumed, m)
        /\ carry_response' = <<m>>
        /\ IF is_content_safety_error(m.errtext)
           THEN /\ handle_content_safety_error(m.errtext, current_migration,
                                               m.name)
                /\ pc' = "return_safety"
                /\ ret' = EmptyStr
                /\ UNCHANGED raised
           ELSE ExceptClauses(ValidationError, m.errtext)
    /\ UNCHANGED <<classified, verdicts>>
    /\ UNCHANGED <<azure_imported, current_migration, is_complete,
                   carry_bound, submissions, candidate_turns>>

\* chat.invoke() raises instead of yielding
InvokeRaises ==
    /\ pc = "iter"
    /\ \E type \in TransportExcTypes, error \in ErrTexts :
           ExceptClauses(type, error)
    /\ UNCHANGED <<classified, verdicts>>
    /\ UNCHANGED <<azure_imported, current_migration, is_complete,
                   carry_bound, carry_response, consumed, submissions,
                   candidate_turns>>

\* chat.invoke() is exhausted
Exhausted ==
    /\ pc = "iter"
    /\ pc' = "after_try"
    /\ UNCHANGED <<classified, verdicts>>
    /\ UNCHANGED <<azure_imported, current_migration, is_complete,
                   carry_bound, carry_response, consumed, submissions,
                   candidate_turns, events, logs, ret, raised>>

\* Variant: the unconditional break after the try statement is missing,
\* so the while loop is evaluated again.
AfterTry_NoBreak ==
    /\ pc = "after_try"
    /\ \E chat_is_complete \in BOOLEAN :
           is_complete' = IF chat_is_complete THEN TRUE ELSE is_complete
    /\ pc' = "loop_head"
    /\ UNCHANGED <<classified, verdicts>>
    /\ UNCHANGED <<azure_imported, current_migration, carry_bound,
                   carry_response, consumed, submissions, candidate_turns,
                   events, logs, ret, raised>>

\* if chat.is_complete: is_complete = True; break
AfterTry ==
    /\ pc = "after_try"
    /\ \E chat_is_complete \in BOOLEAN :
           is_complete' = IF chat_is_complete THEN TRUE ELSE is_complete
    /\ pc' = "validate"
    /\ UNCHANGED <<classified, verdicts>>
    /\ UNCHANGED <<azure_imported, current_migration, carry_bound,
                   carry_response, consumed, submissions, candidate_turns,
                   events, logs, ret, raised>>

\* migrated_query = current_migration; validate_migration; return
Validate ==
    /\ pc = "validate"
    /\ IF ~carry_bound
       THEN /\ pc' = "raised"
            /\ raised' = UnboundLocalError
            /\ UNCHANGED <<events, logs, ret>>
       ELSE /\ validate_migration(current_migration, carry_response)
            /\ IF IsValidMigration(current_migration)
               THEN pc' = "return_migrated" /\ ret' = current_migration
               ELSE pc' = "return_invalid" /\ ret' = EmptyStr
            /\ UNCHANGED raised
    /\ UNCHANGED <<classified, verdicts>>
    /\ UNCHANGED <<azure_imported, current_migration, is_complete,
                   carry_bound, carry_response, consumed, submissions,
                   candidate_turns>>

(* ------------------------------------------------------------------ *)
(* is_content_safety_error on its own                                  *)
(* ------------------------------------------------------------------ *)

\* Number of times one error is classified.
MaxCalls == 2

UpperChar(c) ==
    CASE c = "a" -> "A" [] c = "b" -> "B" [] c = "c" -> "C" [] c = "d" -> "D"
      [] c = "e" -> "E" [] c = "f" -> "F" [] c = "g" -> "G" [] c = "h" -> "H"
      [] c = "i" -> "I" [] c = "j" -> "J" [] c = "k" -> "K" [] c = "l" -> "L"
      [] c = "m" -> "M" [] c = "n" -> "N" [] c = "o" -> "O" [] c = "p" -> "P"
      [] c = "q" -> "Q" [] c = "r" -> "R" [] c = "s" -> "S" [] c = "t" -> "T"
      [] c = "u" -> "U" [] c = "v" -> "V" [] c = "w" -> "W" [] c = "x" -> "X"
      [] c = "y" -> "Y" [] c = "z" -> "Z" [] OTHER -> c

Upper(s) == [i \in 1..Len(s) |-> UpperChar(s[i])]
Capitalized(s) == <<UpperChar(s[1])>> \o Tail(s)
DropFirst(s) == Tail(s)
DropLast(s) == SubSeq(s, 1, Len(s) - 1)

\* what surrounds a phrase in an error text
Pads == {<<>>, <<"E","r","r",":"," ">>, <<" ","x">>}

Indicators == {error_indicators[k] : k \in 1..Len(error_indicators)}

\* texts that contain an indicator phrase, in lower, upper or mixed case
TextsWithIndicator ==
    {p \o v \o q : p \in Pads, q \in Pads,
                   v \in UNION {{ind, Upper(ind), Capitalized(ind)} :
                                    ind \in Indicators}}

\* texts that contain none: an indicator short of its first or last
\* character, and texts without any part of one
TextsWithoutIndicator ==
    {p \o v \o q : p \in Pads, q \in Pads,
                   v \in UNION {{DropFirst(ind), DropLast(ind),
                                 Upper(DropLast(ind))} : ind \in Indicators}}
    \cup {NoText, TextBoom, TextEOF}

ClassifierTexts == TextsWithIndicator \cup TextsWithoutIndicator

\* convert_script has not been entered; an error is about to be classified
ClassifierInit ==
    /\ pc = "entry"
    /\ azure_imported = TRUE
    /\ current_migration = Unbound
    /\ is_complete = FALSE
    /\ carry_bound = FALSE
    /\ carry_response = <<>>
    /\ consumed = <<>>
    /\ submissions = 0
    /\ candidate_turns = <<>>
    /\ events = <<>>
    /\ logs = <<>>
    /\ ret = Unbound
    /\ raised = NoException
    /\ classified \in ClassifierTexts
    /\ verdicts = <<>>

\* one call is_content_safety_error(error) on the text under test
Classify ==
    /\ Len(verdicts) < MaxCalls
    /\ verdicts' = Append(verdicts, is_content_safety_error(classified))
    /\ UNCHANGED <<classified, pc, azure_imported, current_migration, is_complete,
                   carry_bound, carry_response, consumed, submissions,
                   candidate_turns, events, logs, ret, raised>>

ClassifierNext == Classify

ClassifierSpec == ClassifierInit /\ [][ClassifierNext]_vars

Next ==
    \/ Start
    \/ LoopHead
    \/ Submit
    \/ SubmitRaises
    \/ ConsumeMessage
    \/ ConsumeMigratorAbort
    \/ ConsumeUndecodable
    \/ InvokeRaises
    \/ Exhausted
    \/ AfterTry
    \/ Validate

Spec == Init /\ [][Next]_vars

(* ------------------------------------------------------------------ *)
(* Shapes                                                              *)
(* ------------------------------------------------------------------ *)

Returned == pc \in {"return_safety", "return_invalid", "return_migrated"}
Finished == Returned \/ pc = "raised"

TypeOK ==
    /\ pc \in {"entry", "loop_head", "submit", "iter", "after_try",
               "validate", "return_safety", "return_invalid",
               "return_migrated", "raised"}
    /\ azure_imported \in BOOLEAN
    /\ current_migration \in Queries \cup {None, Unbound}
    /\ is_complete \in BOOLEAN
    /\ carry_bound \in BOOLEAN
    /\ Len(carry_response) <= 1
    /\ Len(consumed) <= MaxMsgs
    /\ submissions \in 0..1
    /\ ret \in Queries \cup {Unbound}

(* ------------------------------------------------------------------ *)
(* Vocabulary of the properties                                        *)
(* ------------------------------------------------------------------ *)

Last(seq) == seq[Len(seq)]

IsCompletedError(e) == e.process_status = COMPLETED /\ e.file_result = ERROR
IsCompletedSuccess(e) ==
    e.process_status = COMPLETED /\ e.file_result = SUCCESS
IsGenericInfo(e) == e.process_status = IN_PROGRESS /\ e.file_result = INFO

ErrorEvents(evs)   == {i \in 1..Len(evs) : evs[i].file_result = ERROR}
WarningEvents(evs) == {i \in 1..Len(evs) : evs[i].file_result = WARNING}
ErrorLogs(lgs)     == {i \in 1..Len(lgs) : lgs[i].log_type = ERROR}

HasSafetyPrefix(e) ==
    Len(e.agent_message) > 0 /\ e.agent_message[1] = CONTENT_SAFETY_PREFIX

\* candidates the validator is meant to accept
ValidQueries == Queries \ {EmptyStr, NoMigration}

\* the step consumed one more message of chat.invoke()
ConsumedOne == Len(consumed') = Len(consumed) + 1

\* control has passed the loop: line 358 has been reached
ReachedLoopExit ==
    \/ pc \in {"validate", "return_invalid", "return_migrated"}
    \/ pc = "raised" /\ raised = UnboundLocalError

\* the run ended in validate_migration's verdict
Validated == pc \in {"return_invalid", "return_migrated"}

\* the last message consumed was a Migrator abort
EndedByMigratorAbort ==
    Len(consumed) > 0 /\ Last(consumed).role = ASSISTANT
    /\ Last(consumed).name = MIGRATOR /\ Last(consumed).parse = "ok"
    /\ Last(consumed).abort

(* ------------------------------------------------------------------ *)
(* C1                                                                  *)
(* ------------------------------------------------------------------ *)

\* C1: convert_script returns "" on every failure path: whenever it has
\* returned after a COMPLETED/ERROR event was emitted (content-safety
\* block, failed exchange, invalid final candidate), the returned artifact
\* is the empty string, also when a Picker or Fixer had set a candidate.
C1_EmptyOnEveryFailure ==
    (Returned /\ \E i \in 1..Len(events) : IsCompletedError(events[i]))
        => ret = EmptyStr

(* ------------------------------------------------------------------ *)
(* C2                                                                  *)
(* ------------------------------------------------------------------ *)

\* C2: after a Migrator message flagging input_error or rai_error no
\* further message is consumed, convert_script returns "", and the run
\* has emitted exactly one COMPLETED/ERROR event, naming the Migrator and
\* prefixed with CONTENT_SAFETY_PREFIX.
C2_MigratorAbortOneEvent ==
    (Returned /\ EndedByMigratorAbort)
        => /\ ret = EmptyStr
           /\ Cardinality(ErrorEvents(events)) = 1
           /\ \A i \in ErrorEvents(events) :
                  /\ IsCompletedError(events[i])
                  /\ events[i].agent_type = MIGRATOR
                  /\ HasSafetyPrefix(events[i])

(* ------------------------------------------------------------------ *)
(* C3                                                                  *)
(* ------------------------------------------------------------------ *)

\* C3: consuming an assistant message whose content is not parseable JSON
\* and whose decode error is not a content-safety error leaves the
\* candidate unchanged, emits the generic IN_PROGRESS event with the
\* summary "Response parsing error", and the driver stays in the loop
\* ready for the next message.
C3_UndecodableContinues ==
    [][ (/\ ConsumedOne
         /\ Last(consumed').role = ASSISTANT
         /\ Last(consumed').parse = "invalid"
         /\ ~is_content_safety_error(Last(consumed').errtext))
        => /\ current_migration' = current_migration
           /\ pc' = "iter"
           /\ Len(events') = Len(events) + 1
           /\ IsGenericInfo(Last(events'))
           /\ Last(events').agent_message = <<"Response parsing error">>
      ]_vars

(* ------------------------------------------------------------------ *)
(* C4                                                                  *)
(* ------------------------------------------------------------------ *)

\* a step in which add_chat_message or chat.invoke() raised an error whose
\* text is not a content-safety text (no message consumed, loop left,
\* no content-safety return)
TransportFailureStep ==
    /\ pc \in {"submit", "iter"}
    /\ consumed' = consumed
    /\ pc' \in {"raised", "validate"}

\* C4: every transport failure that is not content-safety, whatever its
\* exception class, is reported as a COMPLETED/ERROR event carrying the
\* error text, ends the exchange, and does not leave convert_script as an
\* exception.
C4_TransportFailureReported ==
    [][ TransportFailureStep
        => /\ raised' = NoException
           /\ pc' = "validate"
           /\ Len(events') = Len(events) + 1
           /\ IsCompletedError(Last(events'))
           /\ Last(events').error_text \in ErrTexts
      ]_vars

(* ------------------------------------------------------------------ *)
(* C5                                                                  *)
(* ------------------------------------------------------------------ *)

\* C5: a run ended by the content-safety short-circuit, whether by a
\* Migrator abort or by a content-safety exception, has persisted exactly
\* one ERROR log, emitted exactly one COMPLETED/ERROR event, emitted
\* nothing after it, and returned "".
C5_ShortCircuitUniform ==
    (Returned /\ (pc = "return_safety" \/ EndedByMigratorAbort))
        => /\ Cardinality(ErrorLogs(logs)) = 1
           /\ Cardinality(ErrorEvents(events)) = 1
           /\ IsCompletedError(Last(events))
           /\ Last(logs).log_type = ERROR
           /\ ret = EmptyStr

(* ------------------------------------------------------------------ *)
(* C6                                                                  *)
(* ------------------------------------------------------------------ *)

\* C6 as stated: every consumed message adds exactly one status event and
\* exactly one log entry, for every role; when the message triggers the
\* content-safety short-circuit the pair is terminal and the run is over.
C6_OnePairPerMessage ==
    [][ ConsumedOne
        => /\ Len(events') = Len(events) + 1
           /\ Len(logs') = Len(logs) + 1
           /\ (pc' # "iter" => /\ pc' = "return_safety"
                               /\ IsCompletedError(Last(events'))
                               /\ Last(logs').log_type = ERROR)
      ]_vars

\* C6, amended: a consumed message whose role-specific handling completes
\* adds exactly one generic IN_PROGRESS/INFO event and one INFO log as the
\* last of what it adds, preceded by one WARNING event and one WARNING log
\* exactly when it is a SemanticVerifier message with differences; a
\* Migrator abort and a content-safety decode error add exactly one
\* COMPLETED/ERROR event and one ERROR log and end the consumption; a
\* decode failure that is not content-safety adds no log and either one
\* COMPLETED/ERROR event or, when it is re-raised, nothing, and ends the
\* consumption.
C6_PairsPerMessage ==
    [][ ConsumedOne =>
        LET m  == Last(consumed')
            de == Len(events') - Len(events)
            dl == Len(logs') - Len(logs)
            undecodable == m.role = ASSISTANT /\ m.parse # "ok"
            aborts == m.role = ASSISTANT /\ m.name = MIGRATOR
                      /\ m.parse = "ok" /\ m.abort
            warns == m.role = ASSISTANT /\ m.name = SEMANTIC_VERIFIER
                     /\ m.parse = "ok" /\ m.has_differences
        IN  CASE aborts ->
                   /\ de = 1 /\ dl = 1
                   /\ IsCompletedError(Last(events'))
                   /\ Last(logs').log_type = ERROR
                   /\ pc' = "after_try"
              [] undecodable /\ is_content_safety_error(m.errtext) ->
                   /\ de = 1 /\ dl = 1
                   /\ IsCompletedError(Last(events'))
                   /\ Last(logs').log_type = ERROR
                   /\ pc' = "return_safety"
              [] undecodable /\ ~is_content_safety_error(m.errtext) ->
                   /\ dl = 0
                   /\ \/ de = 1 /\ IsCompletedError(Last(events'))
                               /\ pc' = "validate"
                      \/ de = 0 /\ pc' = "raised"
              [] OTHER ->
                   /\ pc' = "iter"
                   /\ de = (IF warns THEN 2 ELSE 1)
                   /\ dl = (IF warns THEN 2 ELSE 1)
                   /\ IsGenericInfo(Last(events'))
                   /\ Last(logs').log_type = INFO
                   /\ warns =>
                        /\ events'[Len(events) + 1].file_result = WARNING
                        /\ logs'[Len(logs) + 1].log_type = WARNING
      ]_vars

\* a SemanticVerifier message with differences has been consumed as the
\* only message: start event, WARNING event, generic event; two logs
C6_Witness ==
    /\ Len(consumed) = 1
    /\ consumed[1].name = SEMANTIC_VERIFIER /\ consumed[1].has_differences
    /\ Len(events) = 3 /\ Len(logs) = 2
    /\ events[2].file_result = WARNING /\ IsGenericInfo(events[3])

(* ------------------------------------------------------------------ *)
(* C7                                                                  *)
(* ------------------------------------------------------------------ *)

\* C7: whenever the loop is left with the candidate still equal to the
\* sentinel "No migration", by exhaustion or through the handler of a
\* non-safety exception, convert_script returns "" and the whole run has
\* emitted exactly one ERROR status event and one ERROR log entry.
C7_SentinelOneErrorPair ==
    (Finished /\ ReachedLoopExit /\ current_migration = NoMigration)
        => /\ Returned
           /\ ret = EmptyStr
           /\ Cardinality(ErrorEvents(events)) = 1
           /\ Cardinality(ErrorLogs(logs)) = 1

(* ------------------------------------------------------------------ *)
(* C8                                                                  *)
(* ------------------------------------------------------------------ *)

\* every consumed message was decoded (none aborted or failed to decode)
AllDecoded ==
    \A i \in 1..Len(consumed) :
        consumed[i].parse = "ok" /\ ~consumed[i].abort

\* the consumed sequence ends with SyntaxChecker-without-errors, Fixer
EndsWithCheckerThenFixer ==
    /\ Len(consumed) >= 2
    /\ consumed[Len(consumed) - 1].role = ASSISTANT
    /\ consumed[Len(consumed) - 1].name = SYNTAX_CHECKER
    /\ consumed[Len(consumed) - 1].no_syntax_errors
    /\ Last(consumed).role = ASSISTANT
    /\ Last(consumed).name = FIXER

\* C8: when the loop is left after a sequence of decoded messages that
\* ends with a SyntaxChecker message without syntax errors followed by a
\* Fixer message, the candidate handed to validate_migration is that
\* Fixer's fixed_query, whatever earlier Picker or Fixer messages set, and
\* a non-empty returned artifact is that fixed_query.
C8_FixerAfterCheckerWins ==
    (ReachedLoopExit /\ pc # "raised" /\ AllDecoded
        /\ EndsWithCheckerThenFixer)
        => /\ current_migration = Last(consumed).query
           /\ (Returned /\ ret # EmptyStr => ret = Last(consumed).query)
           /\ (Returned /\ Last(consumed).query \in ValidQueries
                   => ret = Last(consumed).query)

\* Picker "SELECT 1", SyntaxChecker without errors, Fixer "SELECT 2":
\* "SELECT 2" is returned
C8_Witness ==
    /\ pc = "return_migrated"
    /\ Len(consumed) = 3
    /\ consumed[1].name = PICKER /\ consumed[1].query = "SELECT 1"
    /\ EndsWithCheckerThenFixer /\ AllDecoded
    /\ consumed[3].query = "SELECT 2"
    /\ ret = "SELECT 2"

(* ------------------------------------------------------------------ *)
(* C9                                                                  *)
(* ------------------------------------------------------------------ *)

\* C9: validate_migration accepts the final candidate iff it is neither
\* empty, nor None, nor the sentinel.  Accepted: the last event is
\* COMPLETED/SUCCESS, the last log is a SUCCESS log of the candidate, and
\* convert_script returns the candidate.  Rejected: the last event is
\* COMPLETED/ERROR, the last log is an ERROR log attributed to the name and
\* role of the last message seen (SemanticVerifier/assistant when none was
\* seen), and convert_script returns "".
C9_ValidatorContract ==
    /\ pc = "return_migrated" =>
          /\ current_migration \in ValidQueries
          /\ IsCompletedSuccess(Last(events))
          /\ Last(logs).log_type = SUCCESS
          /\ Last(logs).last_candidate = current_migration
          /\ ret = current_migration
    /\ pc = "return_invalid" =>
          /\ current_migration \notin ValidQueries
          /\ IsCompletedError(Last(events))
          /\ Last(logs).log_type = ERROR
          /\ Last(logs).agent_type =
                 (IF consumed = <<>> THEN SEMANTIC_VERIFIER
                  ELSE Last(consumed).name)
          /\ Last(logs).author_role =
                 (IF consumed = <<>> THEN ASSISTANT
                  ELSE Last(consumed).role)
          /\ ret = EmptyStr

\* the validator rejected the sentinel that a Picker message had set
C9_Witness ==
    /\ pc = "return_invalid"
    /\ current_migration = NoMigration
    /\ Len(consumed) > 0 /\ Last(consumed).name = PICKER
    /\ Last(consumed).query = NoMigration
    /\ Last(logs).agent_type = PICKER
    /\ ret = EmptyStr

(* ------------------------------------------------------------------ *)
(* C10                                                                 *)
(* ------------------------------------------------------------------ *)

\* the last message consumed is a decoded SemanticVerifier message with a
\* non-empty differences list
LastIsVerifierWithDifferences(msgs) ==
    /\ Len(msgs) > 0
    /\ Last(msgs).role = ASSISTANT /\ Last(msgs).name = SEMANTIC_VERIFIER
    /\ Last(msgs).parse = "ok" /\ Last(msgs).has_differences

\* C10: consuming a SemanticVerifier message with differences while a valid
\* candidate is tracked leaves the candidate unchanged, keeps the driver in
\* the loop and adds exactly one WARNING event, which carries the
\* verifier's summary; and when that message was the last one and the run
\* reaches the validator, the run ends with COMPLETED/SUCCESS and returns
\* the tracked candidate.
C10_VerifierWarningKeepsCandidate ==
    [][ /\ (ConsumedOne /\ LastIsVerifierWithDifferences(consumed')
                /\ current_migration \in ValidQueries)
            => /\ current_migration' = current_migration
               /\ pc' = "iter"
               /\ Cardinality(WarningEvents(events')) =
                      Cardinality(WarningEvents(events)) + 1
               /\ \E i \in (Len(events) + 1)..Len(events') :
                      /\ events'[i].file_result = WARNING
                      /\ events'[i].agent_message
                             = <<Last(consumed').summary>>
        /\ (Validated' /\ LastIsVerifierWithDifferences(consumed')
                /\ current_migration' \in ValidQueries)
            => /\ pc' = "return_migrated"
               /\ IsCompletedSuccess(Last(events'))
               /\ ret' = current_migration'
      ]_vars

\* Picker "SELECT 2", then SemanticVerifier with differences and summary
\* "minor diff": one WARNING "minor diff", SUCCESS, "SELECT 2" returned
C10_Witness ==
    /\ pc = "return_migrated"
    /\ Len(consumed) = 2
    /\ consumed[1].name = PICKER /\ consumed[1].query = "SELECT 2"
    /\ LastIsVerifierWithDifferences(consumed)
    /\ consumed[2].summary = "minor diff"
    /\ Cardinality(WarningEvents(events)) = 1
    /\ \A i \in WarningEvents(events) :
           events[i].agent_message = <<"minor diff">>
    /\ IsCompletedSuccess(Last(events))
    /\ ret = "SELECT 2"

(* ------------------------------------------------------------------ *)
(* C11                                                                 *)
(* ------------------------------------------------------------------ *)

\* C11: the source script is submitted at most once and chat.invoke() is
\* drained at most once per run, whatever chat.is_complete answers after
\* the first pass: add_chat_message is reached only while nothing has been
\* submitted, consumed or reported yet, the drain is entered only from
\* that first submission, and once it is left it is never entered again.
C11_SingleSubmission ==
    [][ /\ submissions' <= 1
        /\ (pc' = "submit"
               => /\ submissions' = 0
                  /\ consumed' = <<>>
                  /\ Len(events') = 1)
        /\ (pc' = "iter" /\ pc # "iter" => pc = "submit" /\ submissions = 0)
        /\ (pc \in {"after_try", "validate"}
               => pc' \notin {"loop_head", "submit", "iter"})
      ]_vars

\* the first pass is over, chat.is_complete was false, and the run ended
\* with one submission
C11_Witness ==
    /\ Returned
    /\ ~is_complete
    /\ submissions = 1
    /\ Len(consumed) > 0
    /\ pc # "return_safety"

(* ------------------------------------------------------------------ *)
(* C12                                                                 *)
(* ------------------------------------------------------------------ *)

\* control is back at the caller after a failure: "" was returned or an
\* exception propagated
FailedRun == Finished /\ pc # "return_migrated"

\* C12: on every failure path, whether convert_script returns "" or lets
\* an exception propagate, at least one status event reporting the
\* failure and at least one log entry have been emitted.
C12_NoSilentFailure ==
    FailedRun
        => /\ \E i \in 1..Len(events) : events[i].file_result = ERROR
           /\ Len(logs) >= 1

(* ------------------------------------------------------------------ *)
(* C14                                                                 *)
(* ------------------------------------------------------------------ *)

\* the message is an assistant message of agent name whose content decoded
DecodedFrom(m, name) ==
    m.role = ASSISTANT /\ m.name = name /\ m.parse = "ok"

\* C14: consuming a message changes the candidate only when it is a
\* decoded Picker message (to picked_query), a decoded Fixer message (to
\* fixed_query) or a Migrator abort (to None); every other message leaves
\* it unchanged, and so does every later step of the run.  A "candidate"
\* turn pairing the source with the current candidate is appended exactly
\* when a decoded SyntaxChecker message has an empty error list, and that
\* message changes nothing else but the generic report.
C14_CandidateFrame ==
    [][ /\ (ConsumedOne =>
              LET m == Last(consumed')
              IN  /\ current_migration' =
                        (CASE DecodedFrom(m, PICKER) -> m.query
                           [] DecodedFrom(m, FIXER) -> m.query
                           [] DecodedFrom(m, MIGRATOR) /\ m.abort -> None
                           [] OTHER -> current_migration)
                  /\ candidate_turns' =
                        (IF DecodedFrom(m, SYNTAX_CHECKER)
                               /\ m.no_syntax_errors
                         THEN Append(candidate_turns, current_migration)
                         ELSE candidate_turns)
                  /\ (DecodedFrom(m, SYNTAX_CHECKER)
                        => /\ current_migration' = current_migration
                           /\ pc' = "iter"
                           /\ Len(events') = Len(events) + 1
                           /\ Len(logs') = Len(logs) + 1))
        /\ (~ConsumedOne /\ pc # "entry"
              => /\ current_migration' = current_migration
                 /\ candidate_turns' = candidate_turns)
      ]_vars

\* Picker "SELECT 1", then SyntaxChecker with errors, then SyntaxChecker
\* without: one candidate turn, pairing the source with "SELECT 1"
C14_Witness ==
    /\ Len(consumed) = 3
    /\ DecodedFrom(consumed[1], PICKER) /\ consumed[1].query = "SELECT 1"
    /\ DecodedFrom(consumed[2], SYNTAX_CHECKER)
    /\ ~consumed[2].no_syntax_errors
    /\ DecodedFrom(consumed[3], SYNTAX_CHECKER)
    /\ consumed[3].no_syntax_errors
    /\ candidate_turns = <<"SELECT 1">>
    /\ current_migration = "SELECT 1"

(* ------------------------------------------------------------------ *)
(* C15                                                                 *)
(* ------------------------------------------------------------------ *)

\* C15: a SemanticVerifier message with differences adds its WARNING event
\* and WARNING log and, after them, the generic IN_PROGRESS/INFO event and
\* INFO log of the same message; a Migrator message flagging input_error
\* or rai_error adds only its COMPLETED/ERROR event and its ERROR log, and
\* no generic IN_PROGRESS event or INFO log.
C15_RoleSpecificBeforeGeneric ==
    [][ ConsumedOne =>
        LET m  == Last(consumed')
            ne == Len(events)
            nl == Len(logs)
        IN  /\ (DecodedFrom(m, SEMANTIC_VERIFIER) /\ m.has_differences
                  => /\ Len(events') = ne + 2
                     /\ Len(logs') = nl + 2
                     /\ events'[ne + 1].file_result = WARNING
                     /\ events'[ne + 1].agent_type = SEMANTIC_VERIFIER
                     /\ IsGenericInfo(events'[ne + 2])
                     /\ events'[ne + 2].agent_type = SEMANTIC_VERIFIER
                     /\ logs'[nl + 1].log_type = WARNING
                     /\ logs'[nl + 2].log_type = INFO)
            /\ (DecodedFrom(m, MIGRATOR) /\ m.abort
                  => /\ Len(events') = ne + 1
                     /\ Len(logs') = nl + 1
                     /\ IsCompletedError(events'[ne + 1])
                     /\ events'[ne + 1].agent_type = MIGRATOR
                     /\ logs'[nl + 1].log_type = ERROR)
      ]_vars

\* a verifier message with differences, then a Migrator abort: start,
\* WARNING, generic, COMPLETED/ERROR; WARNING log, INFO log, ERROR log
C15_Witness ==
    /\ pc = "after_try"
    /\ Len(consumed) = 2
    /\ DecodedFrom(consumed[1], SEMANTIC_VERIFIER)
    /\ consumed[1].has_differences
    /\ DecodedFrom(consumed[2], MIGRATOR) /\ consumed[2].abort
    /\ Len(events) = 4 /\ Len(logs) = 3
    /\ events[2].file_result = WARNING /\ IsGenericInfo(events[3])
    /\ IsCompletedError(events[4])

(* ------------------------------------------------------------------ *)
(* C16                                                                 *)
(* ------------------------------------------------------------------ *)

\* C16: consuming a SemanticVerifier message with an empty payload adds a
\* WARNING event and a WARNING log noting the missing return value, leaves
\* the candidate unchanged and keeps the driver in the loop.
C16_EmptyVerifierWarns ==
    [][ (/\ ConsumedOne
         /\ Last(consumed').role = ASSISTANT
         /\ Last(consumed').name = SEMANTIC_VERIFIER
         /\ Last(consumed').parse = "empty")
        => /\ current_migration' = current_migration
           /\ pc' = "iter"
           /\ \E i \in (Len(events) + 1)..Len(events') :
                  /\ events'[i].file_result = WARNING
                  /\ events'[i].agent_message =
                         <<"No return value from semantic verifier agent.">>
           /\ \E i \in (Len(logs) + 1)..Len(logs') :
                  logs'[i].log_type = WARNING
      ]_vars

(* ------------------------------------------------------------------ *)
(* C17                                                                 *)
(* ------------------------------------------------------------------ *)

RECURSIVE LastAccepted(_)
\* the query of the most recent decoded Picker or Fixer message of msgs,
\* the sentinel when there is none
LastAccepted(msgs) ==
    IF msgs = <<>> THEN NoMigration
    ELSE IF DecodedFrom(Last(msgs), PICKER) \/ DecodedFrom(Last(msgs), FIXER)
         THEN Last(msgs).query
         ELSE LastAccepted(SubSeq(msgs, 1, Len(msgs) - 1))

\* C17: the generic INFO log of a Picker or Fixer message carries the
\* candidate this message has just set; the INFO log of any other message
\* carries the candidate set by the most recent earlier Picker or Fixer
\* message, the sentinel when there is none; the ERROR log of a Migrator
\* abort carries the candidate as it was before the abort set it to None.
C17_LogSnapshot ==
    [][ ConsumedOne =>
        LET m == Last(consumed')
        IN  /\ (pc' = "iter"
                  => /\ Last(logs').log_type = INFO
                     /\ Last(logs').last_candidate = LastAccepted(consumed')
                     /\ (DecodedFrom(m, PICKER) \/ DecodedFrom(m, FIXER)
                           => Last(logs').last_candidate = m.query))
            /\ (DecodedFrom(m, MIGRATOR) /\ m.abort
                  => /\ Last(logs').log_type = ERROR
                     /\ Last(logs').last_candidate = LastAccepted(consumed)
                     /\ Last(logs').last_candidate = current_migration
                     /\ current_migration' = None)
      ]_vars

\* Picker "SELECT 1", Fixer "SELECT 2", then a Migrator abort: the INFO
\* logs carry "SELECT 1" and "SELECT 2", the ERROR log "SELECT 2"
C17_Witness ==
    /\ Len(consumed) = 3 /\ Len(logs) = 3
    /\ DecodedFrom(consumed[1], PICKER) /\ consumed[1].query = "SELECT 1"
    /\ DecodedFrom(consumed[2], FIXER) /\ consumed[2].query = "SELECT 2"
    /\ DecodedFrom(consumed[3], MIGRATOR) /\ consumed[3].abort
    /\ logs[1].last_candidate = "SELECT 1"
    /\ logs[2].last_candidate = "SELECT 2"
    /\ logs[3].last_candidate = "SELECT 2" /\ logs[3].log_type = ERROR
    /\ current_migration = None

(* ------------------------------------------------------------------ *)
(* C18                                                                 *)
(* ------------------------------------------------------------------ *)

SuccessEvents(evs) == {i \in 1..Len(evs) : IsCompletedSuccess(evs[i])}
SuccessLogs(lgs)   == {i \in 1..Len(lgs) : lgs[i].log_type = SUCCESS}

\* C18: a COMPLETED/SUCCESS event is emitted at most once per run; in a
\* run that has returned, the returned artifact is non-empty iff such an
\* event was emitted, the event is then the last status event, and the
\* SUCCESS log stores the returned artifact.
C18_SuccessIffNonEmpty ==
    /\ Cardinality(SuccessEvents(events)) <= 1
    /\ Returned =>
          /\ (ret # EmptyStr) <=> (SuccessEvents(events) # {})
          /\ SuccessEvents(events) # {} =>
                /\ SuccessEvents(events) = {Len(events)}
                /\ Cardinality(SuccessLogs(logs)) = 1
                /\ \A i \in SuccessLogs(logs) :
                       logs[i].last_candidate = ret

\* "SELECT 1" is returned with SUCCESS as the last event although a
\* COMPLETED/ERROR event was emitted before it
C18_Witness ==
    /\ pc = "return_migrated"
    /\ ret = "SELECT 1"
    /\ IsCompletedSuccess(Last(events))
    /\ \E i \in 1..Len(events) : IsCompletedError(events[i])
    /\ Last(logs).last_candidate = "SELECT 1"

(* ------------------------------------------------------------------ *)
(* C19                                                                 *)
(* ------------------------------------------------------------------ *)

IsStartedEvent(e) ==
    /\ IsGenericInfo(e)
    /\ e.agent_message = <<"File processing started">>

\* C19: the first status event of a run is the IN_PROGRESS/INFO event
\* "File processing started", and it is the only event emitted when the
\* source script is submitted; in every run that has returned a value the
\* last status event has phase COMPLETED with result ERROR or SUCCESS,
\* whichever exit was taken.
C19_Bracketed ==
    /\ Len(events) > 0 => IsStartedEvent(events[1])
    /\ pc = "submit" => Len(events) = 1
    /\ submissions > 0 => Len(events) > 0
    /\ Returned =>
          /\ Len(events) >= 2
          /\ Last(events).process_status = COMPLETED
          /\ Last(events).file_result \in {ERROR, SUCCESS}
          /\ \A i \in 2..Len(events) : ~IsStartedEvent(events[i])

\* a run ended by a content-safety exception after a message was consumed
C19_Witness ==
    /\ pc = "return_safety"
    /\ Len(consumed) > 0
    /\ IsStartedEvent(events[1])
    /\ IsCompletedError(Last(events))
    /\ HasSafetyPrefix(Last(events))

(* ------------------------------------------------------------------ *)
(* C20                                                                 *)
(* ------------------------------------------------------------------ *)

\* The interpreter keeps running convert_script, the chat ends its finite
\* stream and the collaborators return: some step is always taken while
\* one is possible.
FairSpec == Init /\ [][Next]_vars /\ WF_vars(Next)

\* C20: every run of convert_script eventually returns a value or raises,
\* also when chat.is_complete stays false: the loop head is evaluated once,
\* on the way in, and never again.
C20_Terminates ==
    /\ <>Finished
    /\ [][pc' = "loop_head" => pc = "entry"]_vars

\* a run that is over although the chat never reported completion
C20_Witness ==
    /\ Finished
    /\ ~is_complete
    /\ submissions = 1
    /\ Len(consumed) = MaxMsgs

(* ------------------------------------------------------------------ *)
(* C13                                                                 *)
(* ------------------------------------------------------------------ *)

\* C13: is_content_safety_error answers true for every text that contains
\* one of the nine indicator phrases in any letter case, false for every
\* text that contains none, and gives the same answer each time the same
\* text is classified.
C13_ClassifierExact ==
    /\ classified \in TextsWithIndicator
          => \A i \in 1..Len(verdicts) : verdicts[i] = TRUE
    /\ classified \in TextsWithoutIndicator
          => \A i \in 1..Len(verdicts) : verdicts[i] = FALSE
    /\ \A i, j \in 1..Len(verdicts) : verdicts[i] = verdicts[j]

\* "Err: CONTENT VIOLATION x" has been classified twice, both times true
C13_Witness ==
    /\ classified = <<"E","r","r",":"," ">> \o Upper(error_indicators[9])
                   \o <<" ","x">>
    /\ Len(verdicts) >= 2
    /\ verdicts[1] /\ verdicts[2]

====
